---------------------------- MODULE Spec2Model ----------------------------
(***************************************************************************)
(* Model of unit_converter.py: the CONVERSIONS table, convert_temperature, *)
(* create_visualization and the Streamlit script that reads the widgets    *)
(* and, on Convert, computes and displays a result.                        *)
(*                                                                         *)
(* Python floats are IEEE-754 binary64.  TLC integers are 32 bits wide, so *)
(* a float is modelled as sign, 53-bit significand and exponent, the       *)
(* significand being a natural number held as a sequence of 15-bit limbs   *)
(* (least significant first).  Every arithmetic operation computes the     *)
(* exact result and rounds it once, to nearest, ties to even, with gradual *)
(* underflow and overflow to infinity, as the hardware does.               *)
(***************************************************************************)
EXTENDS Integers, Sequences, FiniteSets, TLC

(***************************************************************************)
(* Natural numbers of any size: sequences of limbs in base 2^15, least     *)
(* significant first, without leading zero limbs (zero is << >>).          *)
(***************************************************************************)
B == 2^15

Big == Seq(0..(B - 1))

Max(a, b) == IF a >= b THEN a ELSE b

Min(a, b) == IF a <= b THEN a ELSE b

\* the largest element of a non-empty set of integers
MaxOf(S) == CHOOSE j \in S : \A k \in S : k <= j

\* limb i of x, 0 beyond its length
Limb(x, i) == IF i \in 1..Len(x) THEN x[i] ELSE 0

\* x without its leading zero limbs
BNorm[x \in Big] ==
  LET S == {i \in 1..Len(x) : x[i] # 0}
  IN  IF S = {} THEN <<>> ELSE SubSeq(x, 1, MaxOf(S))

\* the natural number n < 2^31
BFromInt[n \in Nat] == BNorm[<<n % B, (n \div B) % B, n \div (B * B)>>]

\* The carry out of limbs 1..i of x + y: the highest limb pair there that
\* does not just pass a carry on (sum # B - 1) makes one iff its sum >= B.
BCarry(x, y, i) ==
  LET S == {j \in 1..i : Limb(x, j) + Limb(y, j) # B - 1}
  IN  IF S = {} THEN 0
      ELSE IF Limb(x, MaxOf(S)) + Limb(y, MaxOf(S)) >= B THEN 1 ELSE 0

\* x + y
BAdd[x \in Big, y \in Big] ==
  BNorm[[i \in 1..(Max(Len(x), Len(y)) + 1) |->
           (Limb(x, i) + Limb(y, i) + BCarry(x, y, i - 1)) % B]]

\* The borrow out of limbs 1..i of x - y: the highest limb pair there that
\* differs borrows iff the limb of x is the smaller.
BBorrow(x, y, i) ==
  LET S == {j \in 1..i : Limb(x, j) # Limb(y, j)}
  IN  IF S = {} THEN 0
      ELSE IF Limb(x, MaxOf(S)) < Limb(y, MaxOf(S)) THEN 1 ELSE 0

\* x - y, for x >= y
BSub[x \in Big, y \in Big] ==
  BNorm[[i \in 1..Len(x) |-> (x[i] - Limb(y, i) - BBorrow(x, y, i - 1)) % B]]

\* -1, 0 or 1 as x < y, x = y or x > y
BCmp[x \in Big, y \in Big] ==
  IF Len(x) < Len(y) THEN -1
  ELSE IF Len(x) > Len(y) THEN 1
  ELSE LET S == {j \in 1..Len(x) : x[j] # y[j]}
       IN  IF S = {} THEN 0
           ELSE IF x[MaxOf(S)] < y[MaxOf(S)] THEN -1 ELSE 1

\* x with n zero limbs below it: x * B^n
BShiftLimbs[x \in Big, n \in Nat] == IF x = <<>> THEN x ELSE [i \in 1..n |-> 0] \o x

\* x * k, for 0 <= k < 2^15: the low halves of the limb products plus the
\* high halves one limb up
BMulSmall[x \in Big, k \in Nat] ==
  BAdd[BNorm[[i \in 1..Len(x) |-> (x[i] * k) % B]],
       BShiftLimbs[BNorm[[i \in 1..Len(x) |-> (x[i] * k) \div B]], 1]]

\* x * y
BMul[x \in Big, y \in Big] ==
  IF y = <<>> \/ x = <<>> THEN <<>>
  ELSE BAdd[BMulSmall[x, y[1]], BShiftLimbs[BMul[x, Tail(y)], 1]]

\* x * 2^n
BShl[x \in Big, n \in Nat] == BShiftLimbs[BMulSmall[x, 2^(n % 15)], n \div 15]

\* floor(x / 2^k), for 0 <= k < 15
BShrBits[x \in Big, k \in Nat] ==
  BNorm[[i \in 1..Len(x) |->
           x[i] \div 2^k + (Limb(x, i + 1) % 2^k) * 2^(15 - k)]]

\* floor(x / 2^n)
BShr[x \in Big, n \in Nat] ==
  IF n \div 15 >= Len(x) THEN <<>>
  ELSE BShrBits[SubSeq(x, n \div 15 + 1, Len(x)), n % 15]

\* the number of bits of 0 < n < 2^15
BitLen(n) == CHOOSE k \in 1..15 : 2^(k - 1) <= n /\ n < 2^k

\* the number of bits of x (0 for zero)
BLen[x \in Big] == IF x = <<>> THEN 0 ELSE (Len(x) - 1) * 15 + BitLen(x[Len(x)])

\* bit i of x (bit 0 the least significant)
BBit(x, i) == (Limb(x, i \div 15 + 1) \div 2^(i % 15)) % 2

\* x mod 2^n # 0
BLowNonZero(x, n) ==
  \/ \E j \in 1..(n \div 15) : Limb(x, j) # 0
  \/ Limb(x, n \div 15 + 1) % 2^(n % 15) # 0

BOdd(x) == Limb(x, 1) % 2 = 1

\* M / 2^sh rounded to the nearest natural number, ties to even, for
\* sh >= 1; sticky says that the number rounded lies above M (by less than 1).
BRoundEven[q \in Big, half \in BOOLEAN, low \in BOOLEAN] ==
  IF half /\ (low \/ BOdd(q)) THEN BAdd[q, <<1>>] ELSE q

BRoundShr[M \in Big, sh \in Nat, sticky \in BOOLEAN] ==
  BRoundEven[BShr[M, sh], BBit(M, sh - 1) = 1,
             sticky \/ BLowNonZero(M, sh - 1)]

\* One digit of a long division (Knuth, algorithm D): floor(r / y) for
\* r < y * B and y of n limbs with y[n] >= B / 2.  The two top limbs of r
\* divided by y[n] overestimate it by at most 2.
BDigit[r \in Big, y \in Big] ==
  LET n  == Len(y)
      qh == Min((Limb(r, n + 1) * B + Limb(r, n)) \div y[n], B - 1)
  IN  MaxOf({d \in {0, qh - 2, qh - 1, qh} :
               d >= 0 /\ BCmp[BMulSmall[y, d], r] <= 0})

\* one step of the long division by y: the digit d joins the quotient q and
\* leaves the remainder r - y * d
BDivTake[y \in Big, q \in Big, r \in Big, d \in Nat] ==
  <<<<d>> \o q, BSub[r, BMulSmall[y, d]]>>

BDivLimb[y \in Big, q \in Big, r \in Big] == BDivTake[y, q, r, BDigit[r, y]]

\* Long division, limb by limb from the top.  qr[1] holds the quotient
\* digits found so far (leading zeros kept, so its length counts the limbs
\* of x taken) and qr[2] the remainder of those limbs by y.  The result is
\* the quotient and whether a remainder is left.
BDivModAt[x \in Big, y \in Big, qr \in Big \X Big] ==
  IF Len(qr[1]) = Len(x) THEN <<BNorm[qr[1]], qr[2] # <<>>>>
  ELSE BDivModAt[x, y, BDivLimb[y, qr[1],
                                BNorm[<<x[Len(x) - Len(qr[1])]>> \o qr[2]]]]

\* the shift that brings the top limb of y to at least B / 2
BScale(y) == 14 - ((BLen[y] + 14) % 15)

\* <<floor(x / y), x mod y # 0>>, for y # 0
BDivMod[x \in Big, y \in Big] ==
  BDivModAt[BShl[x, BScale(y)], BShl[y, BScale(y)], <<<<>>, <<>>>>]

\* 10^k
BPow10[k \in Nat] ==
  IF k < 4 THEN <<10^k>> ELSE BMulSmall[BPow10[k - 4], 10000]

(***************************************************************************)
(* Python floats (IEEE-754 binary64).  A float is a record                 *)
(*   [k |-> "fin", s |-> sign, m |-> significand, e |-> exponent]          *)
(* of value (-1)^s * m * 2^e, with m of exactly MantBits bits (normal) or  *)
(* of fewer bits and e = MinExp (subnormal), or m = 0 and e = 0 (a zero);  *)
(* or [k |-> "inf", s |-> sign, ...] or [k |-> "nan", ...].  A float has   *)
(* one representation, so = on records is the identity of floats.          *)
(***************************************************************************)
MantBits == 53

MinExp == -1074

MaxExp == 1024

GuardBits == 64

\* the floats
Float == [k : {"fin", "inf", "nan"}, s : {0, 1}, m : Big, e : Int]

FZero(s) == [k |-> "fin", s |-> s, m |-> <<>>, e |-> 0]

FInf(s) == [k |-> "inf", s |-> s, m |-> <<>>, e |-> 0]

FNaN == [k |-> "nan", s |-> 0, m |-> <<>>, e |-> 0]

\* The float of the finite number m * 2^e, m of at most MantBits bits or
\* (a rounding that carried) 2^MantBits: infinity beyond the largest float.
FPack[s \in {0, 1}, m \in Big, e \in Int] ==
  IF m = <<>> THEN FZero(s)
  ELSE IF BLen[m] > MantBits THEN FPack[s, BShr[m, 1], e + 1]
  ELSE IF e + BLen[m] > MaxExp THEN FInf(s)
  ELSE [k |-> "fin", s |-> s, m |-> m, e |-> e]

\* FRound with the bits to drop (sh > 0) or to add (sh <= 0) given
FRoundTo[s \in {0, 1}, Ms \in Big \X BOOLEAN, e \in Int, sh \in Int] ==
  FPack[s, IF sh <= 0 THEN BShl[Ms[1], 0 - sh] ELSE BRoundShr[Ms[1], sh, Ms[2]],
        e + sh]

\* The float nearest to (-1)^s * (M + d) * 2^e, ties to even, where Ms is
\* <<M, sticky>>, 0 <= d < 1 and d > 0 iff sticky (then M has at least
\* MantBits + 2 bits).
FRound[s \in {0, 1}, Ms \in Big \X BOOLEAN, e \in Int] ==
  IF Ms[1] = <<>> THEN FZero(s)
  ELSE FRoundTo[s, Ms, e, Max(BLen[Ms[1]] - MantBits, MinExp - e)]

FNeg[a \in Float] == [a EXCEPT !.s = IF a.k = "nan" THEN 0 ELSE 1 - a.s]

FIsZero(a) == a.k = "fin" /\ a.m = <<>>

\* a * b
FMul[a \in Float, b \in Float] ==
  IF a.k = "nan" \/ b.k = "nan" THEN FNaN
  ELSE IF a.k = "inf" \/ b.k = "inf"
  THEN (IF FIsZero(a) \/ FIsZero(b) THEN FNaN ELSE FInf((a.s + b.s) % 2))
  ELSE FRound[(a.s + b.s) % 2, <<BMul[a.m, b.m], FALSE>>, a.e + b.e]

\* the bits a.m is shifted up by so that the quotient by b.m has at least
\* MantBits + 2 bits
FDivShift(a, b) == Max(0, MantBits + 2 + BLen[b.m] - BLen[a.m])

\* a / b, for b # 0 (Python raises ZeroDivisionError on b = 0: see convert)
FDiv[a \in Float, b \in Float] ==
  IF a.k = "nan" \/ b.k = "nan" THEN FNaN
  ELSE IF a.k = "inf" THEN (IF b.k = "inf" THEN FNaN ELSE FInf((a.s + b.s) % 2))
  ELSE IF b.k = "inf" \/ a.m = <<>> THEN FZero((a.s + b.s) % 2)
  ELSE FRound[(a.s + b.s) % 2, BDivMod[BShl[a.m, FDivShift(a, b)], b.m],
              a.e - b.e - FDivShift(a, b)]

\* The sum of (-1)^sa * A * 2^e and (-1)^sb * (C + d) * 2^e, rounded, where
\* 0 <= d < 1 and d > 0 iff lost.
FAddAligned[sa \in {0, 1}, A \in Big, sb \in {0, 1}, C \in Big, lost \in BOOLEAN, e \in Int] ==
  LET c == BCmp[A, C]
  IN  IF sa # sb /\ c = 0 /\ ~lost THEN FZero(0)
      ELSE FRound[IF sa = sb \/ c > 0 THEN sa ELSE sb,
                  <<IF sa = sb THEN BAdd[A, C]
                    ELSE IF c > 0
                    THEN BSub[BSub[A, C], IF lost THEN <<1>> ELSE <<>>]
                    ELSE BSub[C, A],
                    lost>>,
                  e]

\* The exact sum of two finite non-zero floats, rounded.  b is the operand of
\* the smaller exponent; when it lies more than GuardBits below a, the bits of
\* b below 2^(a.e - GuardBits) only say whether the sum is inexact.
FAddOrdered[a \in Float, b \in Float] ==
  LET cut == Max(0, a.e - b.e - GuardBits)
  IN  FAddAligned[a.s, BShl[a.m, a.e - b.e - cut], b.s, BShr[b.m, cut],
                  BLowNonZero(b.m, cut), b.e + cut]

\* a + b
FAdd[a \in Float, b \in Float] ==
  IF a.k = "nan" \/ b.k = "nan" THEN FNaN
  ELSE IF a.k = "inf" THEN (IF b.k = "inf" /\ b.s # a.s THEN FNaN ELSE a)
  ELSE IF b.k = "inf" THEN b
  ELSE IF a.m = <<>> /\ b.m = <<>> THEN FZero(IF a.s = 1 /\ b.s = 1 THEN 1 ELSE 0)
  ELSE IF a.m = <<>> THEN b
  ELSE IF b.m = <<>> THEN a
  ELSE FAddOrdered[IF a.e >= b.e THEN a ELSE b, IF a.e >= b.e THEN b ELSE a]

\* a - b
FSub[a \in Float, b \in Float] == FAdd[a, FNeg[b]]

\* float(n) for a Python int 0 <= n < 2^31, exact
FInt[n \in Nat] == FRound[0, <<BFromInt[n], FALSE>>, 0]

\* the bits N is shifted up by so that the quotient by 10^k has at least
\* MantBits + 2 bits
FDecShift(N, k) == Max(0, MantBits + 2 + BLen[BPow10[k]] - BLen[N])

\* The float a decimal literal denotes: the float nearest to N / 10^k
\* (the conversion of literals and of typed input is correctly rounded).
FDecB[N \in Big, k \in Nat] ==
  IF N = <<>> THEN FZero(0)
  ELSE FRound[0, BDivMod[BShl[N, FDecShift(N, k)], BPow10[k]],
              0 - FDecShift(N, k)]

\* the literal n / 10^k, for 0 <= n < 2^31
FDec[n \in Nat, k \in Nat] == FDecB[BFromInt[n], k]

\* a == b on floats, as Python compares them (0.0 == -0.0, nan # nan)
FEq(a, b) ==
  /\ a.k # "nan" /\ b.k # "nan"
  /\ \/ a = b
     \/ FIsZero(a) /\ FIsZero(b)

\* the float 2^n, for MinExp + MantBits <= n < MaxExp
FPow2[n \in Int] == FPack[0, BShl[<<1>>, MantBits - 1], n - (MantBits - 1)]

\* |a| < |b| for finite floats
FMagLess[a \in Float, b \in Float] ==
  IF b.m = <<>> THEN FALSE
  ELSE IF a.m = <<>> THEN TRUE
  ELSE BCmp[BShl[a.m, a.e - Min(a.e, b.e)], BShl[b.m, b.e - Min(a.e, b.e)]] < 0

\* format(x, ",.4f"): x rounded to four decimals, ties to even on the exact
\* value of x.  The text is modelled by the number it spells: its sign and
\* its count of ten-thousandths q (the digits of q, grouped by commas).
Format4f[x \in Float] ==
  [k |-> x.k, neg |-> x.s = 1,
   q |-> IF x.k # "fin" THEN <<>>
         ELSE IF x.e >= 0 THEN BShl[BMulSmall[x.m, 10000], x.e]
         ELSE BRoundShr[BMulSmall[x.m, 10000], 0 - x.e, FALSE]]

(***************************************************************************)
(* Python dicts keep insertion order: a dict is a sequence of <<key,       *)
(* value>> pairs.                                                          *)
(***************************************************************************)
\* list(d.keys())
Keys(d) == [i \in 1..Len(d) |-> d[i][1]]

\* k in d
HasKey(d, k) == \E i \in 1..Len(d) : d[i][1] = k

\* d[k], for k in d (KeyError otherwise: see convert)
Get(d, k) == d[CHOOSE i \in 1..Len(d) : d[i][1] = k][2]

\* the set of elements of a sequence
Range(q) == {q[i] : i \in 1..Len(q)}

(***************************************************************************)
(* The conversion table.  Literals is the text of the dict display: a      *)
(* factor written n, k is the numeric literal n / 10^k (k = 0: an int      *)
(* literal, which the arithmetic of line 191 converts to float; an n of    *)
(* 2^31 or more is written h, l: the digits of h, then the nine of l), and *)
(* the values of Temperature are the strings of the source.                *)
(***************************************************************************)
Literals == <<
  <<"Length", <<
     <<"Meters", 1, 0>>,
     <<"Kilometers", 1000, 0>>,
     <<"Centimeters", 1, 2>>,
     <<"Millimeters", 1, 3>>,
     <<"Miles", 160934, 2>>,
     <<"Yards", 9144, 4>>,
     <<"Feet", 3048, 4>>,
     <<"Inches", 254, 4>>,
     <<"Nautical Miles", 1852, 0>> >> >>,
  <<"Weight/Mass", <<
     <<"Kilograms", 1, 0>>,
     <<"Grams", 1, 3>>,
     <<"Milligrams", 1, 6>>,
     <<"Metric Tons", 1000, 0>>,
     <<"Pounds", 453592, 6>>,
     <<"Ounces", 283495, 7>>,
     <<"Stone", 635029, 5>> >> >>,
  <<"Temperature", <<
     <<"Celsius", "C">>,
     <<"Fahrenheit", "F">>,
     <<"Kelvin", "K">> >> >>,
  <<"Area", <<
     <<"Square Meters", 1, 0>>,
     <<"Square Kilometers", 1000000, 0>>,
     <<"Square Miles", 258998811, 2>>,
     <<"Square Yards", 836127, 6>>,
     <<"Square Feet", 92903, 6>>,
     <<"Acres", 404686, 2>>,
     <<"Hectares", 10000, 0>> >> >>,
  <<"Volume", <<
     <<"Cubic Meters", 1, 0>>,
     <<"Liters", 1, 3>>,
     <<"Milliliters", 1, 6>>,
     <<"Cubic Feet", 283168, 7>>,
     <<"Cubic Inches", 163871, 10>>,
     <<"Gallons (US)", 378541, 8>>,
     <<"Quarts (US)", 946353, 9>>,
     <<"Pints (US)", 473176, 9>>,
     <<"Fluid Ounces (US)", 295735, 10>> >> >>,
  <<"Speed", <<
     <<"Meters per Second", 1, 0>>,
     <<"Kilometers per Hour", 277778, 6>>,
     <<"Miles per Hour", 44704, 5>>,
     <<"Knots", 514444, 6>>,
     <<"Feet per Second", 3048, 4>> >> >>,
  <<"Time", <<
     <<"Seconds", 1, 0>>,
     <<"Minutes", 60, 0>>,
     <<"Hours", 3600, 0>>,
     <<"Days", 86400, 0>>,
     <<"Weeks", 604800, 0>>,
     <<"Months", 2592000, 0>>,
     <<"Years", 31536000, 0>> >> >>,
  <<"Digital Storage", <<
     <<"Bytes", 1, 0>>,
     <<"Kilobytes", 1024, 0>>,
     <<"Megabytes", 1048576, 0>>,
     <<"Gigabytes", 1073741824, 0>>,
     <<"Terabytes", 1099, 511627776, 0>> >> >>,
  <<"Energy", <<
     <<"Joules", 1, 0>>,
     <<"Kilojoules", 1000, 0>>,
     <<"Calories", 4184, 3>>,
     <<"Kilocalories", 4184, 0>>,
     <<"Watt-hours", 3600, 0>>,
     <<"Kilowatt-hours", 3600000, 0>>,
     <<"Electron-volts", 1602177, 25>> >> >>,
  <<"Pressure", <<
     <<"Pascal", 1, 0>>,
     <<"Kilopascal", 1000, 0>>,
     <<"Bar", 100000, 0>>,
     <<"PSI", 689476, 2>>,
     <<"Atmosphere", 101325, 0>>,
     <<"Millimeter of Mercury", 133322, 3>> >> >> >>

\* The value of one "key": value entry of the dict display: a string, or
\* the float of the numeric literal.
Entry(x) ==
  IF Len(x) = 2 THEN x
  ELSE <<x[1],
         FDecB[IF Len(x) = 3 THEN BFromInt[x[2]]
               ELSE BAdd[BMul[BFromInt[x[2]], BFromInt[10^9]], BFromInt[x[3]]],
               x[Len(x)]]>>

\* CONVERSIONS as the script builds it
CONVERSIONS ==
  [c \in 1..Len(Literals) |->
     <<Literals[c][1],
       [u \in 1..Len(Literals[c][2]) |-> Entry(Literals[c][2][u])]>>]

\* the text of "About this Converter": the number of units it states per category
ABOUT == <<
  <<"Length", 9>>, <<"Weight/Mass", 7>>, <<"Temperature", 3>>, <<"Area", 7>>,
  <<"Volume", 9>>, <<"Speed", 5>>, <<"Time", 7>>, <<"Digital Storage", 5>>,
  <<"Energy", 7>>, <<"Pressure", 6>> >>

(***************************************************************************)
(* The functions of the script.                                            *)
(***************************************************************************)
\* "Convert to Celsius first": value, given in from_unit, in Celsius
to_celsius(value, from_unit) ==
  IF from_unit = "Fahrenheit"
  THEN FDiv[FMul[FSub[value, FInt[32]], FInt[5]], FInt[9]]
  ELSE IF from_unit = "Kelvin" THEN FSub[value, FDec[27315, 2]]
  ELSE value

\* "Convert from Celsius to target unit"
from_celsius(celsius, to_unit) ==
  IF to_unit = "Fahrenheit"
  THEN FAdd[FDiv[FMul[celsius, FInt[9]], FInt[5]], FInt[32]]
  ELSE IF to_unit = "Kelvin" THEN FAdd[celsius, FDec[27315, 2]]
  ELSE celsius

\* convert_temperature returning value at once when from_unit == to_unit
convert_temperature_shortcut(value, from_unit, to_unit) ==
  IF from_unit = to_unit THEN value
  ELSE from_celsius(to_celsius(value, from_unit), to_unit)

\* convert_temperature(value, from_unit, to_unit)
convert_temperature(value, from_unit, to_unit) ==
  from_celsius(to_celsius(value, from_unit), to_unit)

\* create_visualization(value, result, from_unit, to_unit, category): the
\* rows of the data frame, <<Unit, Value>>
create_visualization(value, result, from_unit, to_unit, category) ==
  << <<from_unit, value>>, <<to_unit, result>> >>

Returned(x) == [ok |-> TRUE, val |-> x, err |-> "none"]

Raised(e) == [ok |-> FALSE, val |-> FNaN, err |-> e]

\* the handler with the two factors exchanged
convert_swapped(tbl, category, from_unit, to_unit, value) ==
  IF category = "Temperature"
  THEN Returned(convert_temperature(value, from_unit, to_unit))
  ELSE IF ~HasKey(tbl, category) THEN Raised("KeyError")
  ELSE IF ~HasKey(Get(tbl, category), from_unit) THEN Raised("KeyError")
  ELSE IF ~HasKey(Get(tbl, category), to_unit) THEN Raised("KeyError")
  ELSE Returned(FDiv[FMul[value, Get(Get(tbl, category), to_unit)],
                     Get(Get(tbl, category), from_unit)])

\* The body of the Convert handler that computes result: the value it
\* computes, or the exception it raises.
convert(tbl, category, from_unit, to_unit, value) ==
  IF category = "Temperature"
  THEN Returned(convert_temperature(value, from_unit, to_unit))
  ELSE IF ~HasKey(tbl, category) THEN Raised("KeyError")
  ELSE IF ~HasKey(Get(tbl, category), from_unit) THEN Raised("KeyError")
  ELSE IF ~HasKey(Get(tbl, category), to_unit) THEN Raised("KeyError")
  ELSE IF FIsZero(Get(Get(tbl, category), to_unit)) THEN Raised("ZeroDivisionError")
  ELSE Returned(FDiv[FMul[value, Get(Get(tbl, category), from_unit)],
                     Get(Get(tbl, category), to_unit)])

(***************************************************************************)
(* The Streamlit application.  The script runs from the top on every       *)
(* interaction: it rebuilds CONVERSIONS, reads the widgets and, in the run *)
(* that a click on Convert starts, computes and displays the result.       *)
(***************************************************************************)
VARIABLES
  conversions,  \* the module-level dict CONVERSIONS
  category,     \* the selection of "Select Conversion Category"
  value,        \* the number in "Enter Value"
  from_unit,    \* the selection of "From Unit"
  to_unit,      \* the selection of "To Unit"
  output        \* what the last run put below the Convert button

vars == <<conversions, category, value, from_unit, to_unit, output>>

\* The numbers a user types into "Enter Value", the first NumValues of:
\* 1.0 (the default), 100, 32, 0, 3, 0.1, 8.98846567431158e+307 (2^1023),
\* -40, 273.15, 7
NumValues == 7

AllValues == <<FInt[1], FInt[100], FInt[32], FInt[0], FInt[3], FDec[1, 1],
               FPow2[1023], FNeg[FInt[40]], FDec[27315, 2], FInt[7]>>

Values == {AllValues[i] : i \in 1..Min(NumValues, Len(AllValues))}

Nothing == [kind |-> "none"]

\* st.success(f"{value:,.4f} {from_unit} = {result:,.4f} {to_unit}")
success(v, f, r, t) ==
  [value |-> Format4f[v], from_unit |-> f, result |-> Format4f[r], to_unit |-> t]

\* What a run shows for the outcome r of the computation: the success
\* message and the chart, or the exception the run stops with.
Show(c, v, f, t, r) ==
  IF r.ok
  THEN [kind |-> "success", result |-> r.val,
        message |-> success(v, f, r.val, t),
        chart |-> create_visualization(v, r.val, f, t, c)]
  ELSE [kind |-> "exception", err |-> r.err]

\* the body of "if st.button("Convert"):" with the widgets at c, v, f, t
Display(tbl, c, v, f, t) == Show(c, v, f, t, convert(tbl, c, f, t, v))

\* list(CONVERSIONS.keys()): the options of the category selectbox
category_options(tbl) == Keys(tbl)

\* the unit options without the last key
unit_options_short(tbl, c) == SubSeq(Keys(Get(tbl, c)), 1, Len(Get(tbl, c)) - 1)

\* list(CONVERSIONS[category].keys()): the options of both unit selectboxes
unit_options(tbl, c) == Keys(Get(tbl, c))

\* d with d[k] = x, for k in d
DictSet(d, k, x) == [i \in 1..Len(d) |-> IF d[i][1] = k THEN <<k, x>> ELSE d[i]]

\* a script whose table has 0 for Meters
Script_zero(c, v, f, t) ==
  /\ conversions' = DictSet(CONVERSIONS, "Length",
                            DictSet(Get(CONVERSIONS, "Length"), "Meters", FInt[0]))
  /\ category' = c
  /\ value' = v
  /\ from_unit' = f
  /\ to_unit' = t

\* a script that keeps its table between runs and stores the last result of
\* a linear category in it, as the factor of to_unit
Script_storing(c, v, f, t) ==
  /\ conversions' =
       IF output.kind = "success" /\ category # "Temperature"
       THEN DictSet(conversions, category,
                    DictSet(Get(conversions, category), to_unit, output.result))
       ELSE conversions
  /\ category' = c
  /\ value' = v
  /\ from_unit' = f
  /\ to_unit' = t

\* One run of the script down to the Convert button, with the widgets at
\* c, v, f, t: it builds the table and reads the widgets.
Script(c, v, f, t) ==
  /\ conversions' = CONVERSIONS
  /\ category' = c
  /\ value' = v
  /\ from_unit' = f
  /\ to_unit' = t

\* a run that leaves the last result on the page
Idle_stale == output' = output

\* st.button("Convert") returns False in a run that no click on it started:
\* the run puts nothing below the button
Idle == output' = Nothing

\* st.button("Convert") returns True in the run a click on it starts
Convert == output' = Display(conversions', category', value', from_unit', to_unit')

\* a unit selectbox that keeps its selection when the category changes
Reselect_keep(tbl, c, d, u) == u

\* A unit selectbox after the category changed from c to d: a selectbox whose
\* options changed is a new widget, at its default index 0.
Reselect(tbl, c, d, u) ==
  IF unit_options(tbl, d) = unit_options(tbl, c) THEN u ELSE unit_options(tbl, d)[1]

Init ==
  /\ conversions = CONVERSIONS
  /\ category = category_options(CONVERSIONS)[1]
  /\ value = FInt[1]
  /\ from_unit = unit_options(CONVERSIONS, category_options(CONVERSIONS)[1])[1]
  /\ to_unit = unit_options(CONVERSIONS, category_options(CONVERSIONS)[1])[1]
  /\ output = Nothing

SelectCategory ==
  \E c \in Range(category_options(conversions)) :
    /\ c # category
    /\ Script(c, value, Reselect(conversions, category, c, from_unit),
              Reselect(conversions, category, c, to_unit))
    /\ Idle

EnterValue ==
  \E v \in Values :
    /\ v # value
    /\ Script(category, v, from_unit, to_unit)
    /\ Idle

SelectFromUnit ==
  \E u \in Range(unit_options(conversions, category)) :
    /\ u # from_unit
    /\ Script(category, value, u, to_unit)
    /\ Idle

SelectToUnit ==
  \E u \in Range(unit_options(conversions, category)) :
    /\ u # to_unit
    /\ Script(category, value, from_unit, u)
    /\ Idle

ClickConvert ==
  /\ Script(category, value, from_unit, to_unit)
  /\ Convert

Next ==
  \/ SelectCategory
  \/ EnterValue
  \/ SelectFromUnit
  \/ SelectToUnit
  \/ ClickConvert

Spec == Init /\ [][Next]_vars

(***************************************************************************)
(* The conversion engine on its own: the computation of the Convert        *)
(* handler applied to any category, units and value, then applied to its   *)
(* own result with the units exchanged.                                    *)
(***************************************************************************)
\* a category and a unit the table does not hold
NoCategory == "Imaginary"

NoUnit == "Furlongs"

EngineCategories == Range(Keys(CONVERSIONS)) \cup {NoCategory}

EngineUnits(c) ==
  IF HasKey(CONVERSIONS, c)
  THEN Range(Keys(Get(CONVERSIONS, c))) \cup {NoUnit}
  ELSE {NoUnit}

EngineInit ==
  /\ conversions = CONVERSIONS
  /\ category \in EngineCategories
  /\ value \in Values
  /\ from_unit \in EngineUnits(category)
  /\ to_unit \in EngineUnits(category)
  /\ output = Nothing

\* convert(category, from_unit, to_unit, value)
Call ==
  /\ output = Nothing
  /\ output' = [kind |-> "returned",
                r |-> convert(conversions, category, from_unit, to_unit, value)]
  /\ UNCHANGED <<conversions, category, value, from_unit, to_unit>>

\* convert(category, to_unit, from_unit, result)
CallBack ==
  /\ output.kind = "returned"
  /\ output.r.ok
  /\ output' = [kind |-> "round_trip", r |-> output.r,
                back |-> convert(conversions, category, to_unit, from_unit, output.r.val)]
  /\ UNCHANGED <<conversions, category, value, from_unit, to_unit>>

EngineNext == Call \/ CallBack

SpecEngine == EngineInit /\ [][EngineNext]_vars

(***************************************************************************)
(* Properties.                                                             *)
(***************************************************************************)
\* a result is on the page
Shown == output.kind = "success"

Linear == category # "Temperature"

TemperatureUnits == {"Celsius", "Fahrenheit", "Kelvin"}

\* factor(u): the table's factor of unit u of the selected category
Factor(u) == Get(Get(CONVERSIONS, category), u)

\* a equals v up to rounding: a is finite and |a - v| <= 2^-40 * max(1, |v|)
Close(a, v) ==
  /\ a.k = "fin"
  /\ v.k = "fin"
  /\ ~FMagLess[FMul[FPow2[-40], IF FMagLess[v, FInt[1]] THEN FInt[1] ELSE v],
               FSub[a, v]]

\* the category, or one of the units, is not in the table
Absent ==
  \/ ~HasKey(CONVERSIONS, category)
  \/ ~HasKey(Get(CONVERSIONS, category), from_unit)
  \/ ~HasKey(Get(CONVERSIONS, category), to_unit)

\* C1: in a linear category the result shown on Convert is
\* value * factor(from_unit) / factor(to_unit), with the factors of the
\* table; 1 Kilometers -> Meters gives 1000.
C1_LinearFormula ==
  (Shown /\ Linear) =>
    /\ output.result = FDiv[FMul[value, Factor(from_unit)], Factor(to_unit)]
    /\ (category = "Length" /\ from_unit = "Kilometers" /\ to_unit = "Meters"
          /\ value = FInt[1]) => output.result = FInt[1000]

C1_Witness ==
  /\ Shown
  /\ category = "Length" /\ from_unit = "Kilometers" /\ to_unit = "Meters"
  /\ value = FInt[1]
  /\ output.result = FInt[1000]

\* the first step of the specification: v, given in unit u, in Celsius
ToCelsius(u, v) ==
  CASE u = "Fahrenheit" -> FDiv[FMul[FSub[v, FInt[32]], FInt[5]], FInt[9]]
    [] u = "Kelvin"     -> FSub[v, FDec[27315, 2]]
    [] u = "Celsius"    -> v

\* the second step of the specification: c Celsius in unit u
FromCelsius(u, c) ==
  CASE u = "Fahrenheit" -> FAdd[FDiv[FMul[c, FInt[9]], FInt[5]], FInt[32]]
    [] u = "Kelvin"     -> FAdd[c, FDec[27315, 2]]
    [] u = "Celsius"    -> c

\* C2: in Temperature the result is the value normalised to Celsius and then
\* converted to to_unit, both steps taken also when from_unit = to_unit;
\* 100 Celsius is 212 Fahrenheit, 32 Fahrenheit is 0 Celsius and 0 Celsius
\* is 273.15 Kelvin.
C2_TemperatureTwoSteps ==
  (Shown /\ ~Linear) =>
    /\ output.result = FromCelsius(to_unit, ToCelsius(from_unit, value))
    /\ (from_unit = "Celsius" /\ to_unit = "Fahrenheit" /\ value = FInt[100])
         => output.result = FInt[212]
    /\ (from_unit = "Fahrenheit" /\ to_unit = "Celsius" /\ value = FInt[32])
         => output.result = FInt[0]
    /\ (from_unit = "Celsius" /\ to_unit = "Kelvin" /\ value = FInt[0])
         => output.result = FDec[27315, 2]

\* 0.1 Fahrenheit -> Fahrenheit goes through Celsius and comes back changed
C2_Witness ==
  /\ Shown
  /\ category = "Temperature" /\ from_unit = "Fahrenheit" /\ to_unit = "Fahrenheit"
  /\ value = FDec[1, 1]
  /\ output.result # value

\* C3: a conversion whose category or from_unit or to_unit is absent from
\* the table fails with NotFound (KeyError), in every category, Temperature
\* included; it never returns a value.
C3_NotFound ==
  (output.kind # "none" /\ Absent) => (~output.r.ok /\ output.r.err = "KeyError")

\* C4: converting v from a unit to the same unit returns v: exactly in a
\* linear category, up to rounding in Temperature.
C4_IdentityExact ==
  (Shown /\ from_unit = to_unit) =>
    IF Linear THEN FEq(output.result, value) ELSE Close(output.result, value)

\* C5: converting v from a to b and the result from b back to a yields v up
\* to rounding, for all units a, b of a category and every value v.
C5_RoundTrip ==
  (output.kind = "round_trip" /\ ~Absent) =>
    (output.back.ok /\ Close(output.back.val, value))

\* a strictly positive finite number
Positive(x) == x.k = "fin" /\ x.s = 0 /\ x.m # <<>>

\* C6: every linear category of the table has exactly one unit of factor 1
\* and only strictly positive factors, and no Convert divides by zero.
C6_TableWellFormed ==
  /\ \A i \in 1..Len(conversions) :
       conversions[i][1] # "Temperature" =>
         /\ Cardinality({j \in 1..Len(conversions[i][2]) :
                           conversions[i][2][j][2] = FInt[1]}) = 1
         /\ \A j \in 1..Len(conversions[i][2]) : Positive(conversions[i][2][j][2])
  /\ output.kind = "exception" => output.err # "ZeroDivisionError"

\* a division by the smallest factor of the table
C6_Witness ==
  /\ Shown
  /\ category = "Energy" /\ from_unit = "Joules" /\ to_unit = "Electron-volts"
  /\ Positive(output.result)

\* C7: no operation changes the table, and what a Convert shows depends on
\* the category, units and value alone, whatever happened before.
C7_TableReadOnly ==
  /\ conversions = CONVERSIONS
  /\ Shown => output = Display(CONVERSIONS, category, value, from_unit, to_unit)

\* a result shown after the category, both units and the value were changed
C7_Witness ==
  /\ Shown
  /\ category = "Speed" /\ from_unit = "Knots" /\ to_unit = "Miles per Hour"
  /\ value = FInt[100]

\* C8: the categories offered are the ten of the table in definition order,
\* each category offers the documented number of units, and no unit is
\* offered twice in a category.
C8_Listings ==
  /\ category_options(conversions) =
       <<"Length", "Weight/Mass", "Temperature", "Area", "Volume", "Speed",
         "Time", "Digital Storage", "Energy", "Pressure">>
  /\ Len(ABOUT) = 10
  /\ \A i \in 1..Len(ABOUT) :
       /\ category_options(conversions)[i] = ABOUT[i][1]
       /\ Len(unit_options(conversions, ABOUT[i][1])) = ABOUT[i][2]
       /\ Cardinality(Range(unit_options(conversions, ABOUT[i][1]))) = ABOUT[i][2]
  /\ category = "Length" =>
       unit_options(conversions, category) =
         <<"Meters", "Kilometers", "Centimeters", "Millimeters", "Miles", "Yards",
           "Feet", "Inches", "Nautical Miles">>

\* the last unit of a category is on offer and selected
C8_Witness ==
  /\ category = "Length" /\ from_unit = "Nautical Miles"
  /\ to_unit = unit_options(conversions, category)[9]

\* C9: a run shows a result only when Convert started it; it then shows the
\* value of one conversion of the widgets' category, value and units as
\* they stood at the click, with a chart of the two points
\* (from_unit, value) and (to_unit, result).
C9_ResultOnConvert ==
  [][output' # Nothing =>
       /\ <<category', value', from_unit', to_unit'>> =
            <<category, value, from_unit, to_unit>>
       /\ output'.kind = "success"
       /\ output'.result = convert(conversions', category, from_unit, to_unit, value).val
       /\ Len(output'.chart) = 2
       /\ output'.chart = << <<from_unit, value>>, <<to_unit, output'.result>> >>
       /\ output'.message = success(value, from_unit, output'.result, to_unit)]_vars

C9_Witness ==
  /\ Shown
  /\ category = "Time" /\ from_unit = "Hours" /\ to_unit = "Minutes"
  /\ value = FInt[3]
  /\ output.chart = << <<"Hours", FInt[3]>>, <<"Minutes", FInt[180]>> >>

\* C10: the selected units are always units of the selected category, so no
\* lookup of a Convert misses, and temperature units meet convert_temperature
\* and nothing else.
C10_UnitsOfCategory ==
  /\ from_unit \in Range(unit_options(conversions, category))
  /\ to_unit \in Range(unit_options(conversions, category))
  /\ output.kind # "exception"
  /\ (category = "Temperature") <=> (from_unit \in TemperatureUnits)
  /\ (category = "Temperature") <=> (to_unit \in TemperatureUnits)

\* a conversion after the category changed to Temperature and the units
\* were then selected
C10_Witness ==
  /\ Shown
  /\ category = "Temperature" /\ from_unit = "Kelvin" /\ to_unit = "Fahrenheit"
  /\ value = FInt[0]

====
